---- MODULE Spec2Model ----
(***************************************************************************)
(* The Global Interpreter Lock of Python/ceval_gil.h (POSIX build,         *)
(* FORCE_SWITCHING defined): take_gil, drop_gil, create_gil, recreate_gil. *)
(* Every thread runs the functions statement by statement; a label         *)
(* "t_<line>" / "d_<line>" is the source line the thread executes next.    *)
(***************************************************************************)
EXTENDS Integers, Sequences, FiniteSets, TLC

\* ---------------------------------------------------------------- bounds
\* Completed acquisitions in one run (caps gil_switch_number as well).
MaxTakes == 4
\* Wake-ups of pthread_cond_wait/pthread_cond_timedwait without a signal.
MaxSpurious == 1
\* Largest argument of _PyEval_SetSwitchInterval (microseconds).
MaxInterval == 2

\* ------------------------------------------------------------ identities
Threads == {"A", "B", "C"}
NULL == "NULL"
NoThread == "none"
NoError == ""

\* Line 12: #define DEFAULT_INTERVAL 5000.
DEFAULT_INTERVAL == 5000

VARIABLES
    gil_interval,       \* the switch interval, microseconds      (line 13)
    gil_locked,         \* -1 uninitialized, 0 free, 1 taken     (line 199)
    gil_switch_number,  \* number of GIL switches                (line 201)
    gil_last_holder,    \* last thread holding the GIL, or NULL  (line 204)
    gil_drop_request,   \* the polled flag set by a waiter
    gil_mutex,          \* owner of gil_mutex, or NoThread       (line 210)
    switch_mutex,       \* owner of switch_mutex, or NoThread    (line 216)
    gil_cond,           \* threads blocked on gil_cond           (line 209)
    switch_cond,        \* threads blocked on switch_cond        (line 215)
    created,            \* create_gil has initialised the primitives
    pc,                 \* per thread: the line it executes next
    tstate,             \* per thread: the argument of the running call
    saved_switchnum,    \* per thread: take_gil's local          (line 286)
    timed_out,          \* per thread: take_gil's local          (line 285)
    wait_interval,      \* per thread: microseconds of the wait  (line 119)
    fatal,              \* message of Py_FatalError, or NoError
    alive,              \* threads of the current process (fork keeps one)
    spurious,           \* history: wake-ups without a signal so far
    n_takes,            \* history: N, acquisitions since create/recreate
    n_adjacent,         \* history: K, those by the thread of the one before
    last_taker,         \* history: identity of the latest acquisition
    seq_base,           \* history: gil_switch_number at create/recreate
    mark_base,          \* history: gil_switch_number before acquisition 2
    mark_eq,            \* history: acquisitions 1 and 2 by the same thread
    unheld,             \* history: per thread, drop_gil called, GIL not taken
    wrong_calls,        \* history: calls that broke the rules of use
    owed,               \* history: per thread, a forced handoff is pending
    recording,          \* whether this run counts n_takes and n_adjacent
    set_arg             \* history: the initialiser of gil_interval, then
                        \* the argument of the latest call that set it

vars == <<gil_locked, gil_switch_number, gil_last_holder, gil_drop_request,
          gil_mutex, switch_mutex, gil_cond, switch_cond, created, pc, tstate,
          saved_switchnum, timed_out, wait_interval, fatal, alive, spurious,
          n_takes,
          n_adjacent, last_taker, seq_base, mark_base, mark_eq, unheld,
          wrong_calls, owed, recording, gil_interval, set_arg>>

shared == <<gil_locked, gil_switch_number, gil_last_holder, gil_drop_request>>
prims == <<gil_mutex, switch_mutex, gil_cond, switch_cond, created>>
locals == <<tstate, saved_switchnum, timed_out, wait_interval>>
setting == <<gil_interval, set_arg>>
counts == <<n_takes, n_adjacent, last_taker, seq_base, mark_base, mark_eq>>
hist == <<spurious, counts, owed, unheld, wrong_calls, recording, setting>>

\* Positions inside take_gil and inside drop_gil.
TakeLabels == {"t_278", "t_288", "t_289_wait", "t_289_relock", "t_299",
               "t_302", "t_304", "t_309", "t_312", "t_319"}
DropLabels == {"d_249", "d_252", "d_253", "d_261", "d_262", "d_264", "d_265",
               "d_265_wait", "d_265_relock", "d_266"}

\* The static initialisers of lines 13, 199, 201, 204: nothing is created.
Statics ==
    /\ gil_locked = -1
    /\ gil_switch_number = 0
    /\ gil_last_holder = NULL
    /\ gil_drop_request = FALSE
    /\ gil_mutex = NoThread
    /\ switch_mutex = NoThread
    /\ gil_cond = {}
    /\ switch_cond = {}
    /\ created = FALSE
    /\ pc = [t \in Threads |-> "idle"]
    /\ tstate = [t \in Threads |-> NULL]
    /\ saved_switchnum = [t \in Threads |-> 0]
    /\ timed_out = [t \in Threads |-> FALSE]
    /\ wait_interval = [t \in Threads |-> 0]
    /\ gil_interval = DEFAULT_INTERVAL
    /\ set_arg = DEFAULT_INTERVAL
    /\ fatal = NoError
    /\ alive = Threads
    /\ spurious = 0
    /\ n_takes = 0
    /\ n_adjacent = 0
    /\ last_taker = NULL
    /\ seq_base = 0
    /\ mark_base = 0
    /\ mark_eq = FALSE
    /\ unheld = [t \in Threads |-> FALSE]
    /\ wrong_calls = 0
    /\ owed = [t \in Threads |-> FALSE]

Init == Statics /\ recording = TRUE

Running(t) == fatal = NoError /\ t \in alive

\* gil_created(), line 220-223.
gil_created == gil_locked >= 0

\* ------------------------------------------------------------ primitives
\* MUTEX_LOCK (lines 94-96) on a mutex no MUTEX_INIT has run on is undefined:
\* pthread_mutex_lock either fails (Py_FatalError) or treats the zeroed
\* static as an unlocked mutex.
LockOutcomes == IF created THEN {"locked"} ELSE {"locked", "failed"}

\* COND_SIGNAL (lines 106-108): pthread_cond_signal unblocks one of the
\* threads blocked on the condition variable, if any; W is that choice.
SignalChoices(waiters) == IF waiters = {} THEN {NoThread} ELSE waiters

\* A wake-up of a blocked thread: leave the wait set, go on to re-lock.
Woken(w) ==
    [pc EXCEPT ![w] = IF pc[w] = "t_289_wait" THEN "t_289_relock"
                      ELSE "d_265_relock"]

\* --------------------------------------------------------------- create
\* Mutant: create_gil that leaves gil_last_holder as it was.
create_gil_KeepsHolder ==
    /\ created' = TRUE
    /\ gil_mutex' = NoThread
    /\ switch_mutex' = NoThread
    /\ gil_cond' = {}
    /\ switch_cond' = {}
    /\ gil_locked' = 0
    /\ UNCHANGED <<gil_switch_number, gil_drop_request, gil_last_holder>>

\* create_gil(), lines 225-237: MUTEX_INIT, COND_INIT, gil_locked = 0,
\* gil_last_holder = NULL.  gil_switch_number and the drop request are not
\* assigned.
create_gil ==
    /\ created' = TRUE
    /\ gil_mutex' = NoThread
    /\ switch_mutex' = NoThread
    /\ gil_cond' = {}
    /\ switch_cond' = {}
    /\ gil_locked' = 0
    /\ gil_last_holder' = NULL
    /\ UNCHANGED <<gil_switch_number, gil_drop_request>>

\* create_gil() as the start-up runs it: once, before any thread is inside
\* a call.
Initialize ==
    /\ fatal = NoError
    /\ ~created
    /\ \A t \in Threads : pc[t] = "idle"
    /\ create_gil
    /\ UNCHANGED <<pc, locals, fatal, alive, hist>>

\* recreate_gil(), lines 239-242, as it runs in the child of a fork: the
\* calling thread t is the only thread of the new process, which inherits
\* the memory of the parent; create_gil() then runs on it.
recreate_gil(t) ==
    /\ Running(t)
    /\ created
    /\ alive = Threads
    /\ pc[t] \in {"idle", "holding"}
    /\ create_gil
    /\ alive' = {t}
    /\ pc' = [u \in Threads |-> IF u = t THEN "idle" ELSE "gone"]
    /\ tstate' = [u \in Threads |-> NULL]
    /\ saved_switchnum' = [u \in Threads |-> 0]
    /\ timed_out' = [u \in Threads |-> FALSE]
    /\ wait_interval' = [u \in Threads |-> 0]
    /\ n_takes' = 0
    /\ n_adjacent' = 0
    /\ last_taker' = NULL
    /\ seq_base' = gil_switch_number
    /\ mark_base' = 0
    /\ mark_eq' = FALSE
    /\ owed' = [u \in Threads |-> FALSE]
    /\ unheld' = [u \in Threads |-> FALSE]
    /\ UNCHANGED <<fatal, spurious, wrong_calls, recording, setting>>

Forked == alive # Threads

\* ------------------------------------------------------------- take_gil
\* Threads inside take_gil.
InTake(t) == pc[t] \in TakeLabels

\* Threads blocked in the loop of lines 284-295.
WaitingInTake(t) == pc[t] \in {"t_288", "t_289_wait", "t_289_relock"}

\* Bound of the run: a call starts only if every take_gil under way can
\* still complete within MaxTakes acquisitions and wrong calls (or MaxTakes
\* switches, in a run that keeps no history).
TakeBudget ==
    LET inflight == Cardinality({u \in Threads : InTake(u)})
    IN  IF recording THEN n_takes + wrong_calls + inflight < MaxTakes
        ELSE gil_switch_number + inflight < MaxTakes

\* Lines 271-277: the call and the NULL check.
take_gil(t, ts) ==
    /\ Running(t)
    /\ pc[t] = "idle"
    /\ TakeBudget
    /\ IF ts = NULL
       THEN /\ fatal' = "take_gil: NULL tstate"
            /\ UNCHANGED <<shared, prims, pc, locals, alive>>
       ELSE /\ pc' = [pc EXCEPT ![t] = "t_278"]
            /\ tstate' = [tstate EXCEPT ![t] = ts]
            /\ UNCHANGED <<shared, prims, saved_switchnum, timed_out,
                           wait_interval, fatal, alive>>
    /\ UNCHANGED <<spurious, counts, owed, unheld, recording, setting>>

\* Mutants: take_gil that never waits; take_gil that always waits.
GilFree_Always == TRUE
GilFree_Never == FALSE

\* Line 280 and the loop test of line 284: is the GIL free?
GilFree == gil_locked = 0

\* Lines 278-284: MUTEX_LOCK(gil_mutex); if (!gil_locked) goto _ready.
take_gil_278(t) ==
    /\ Running(t)
    /\ pc[t] = "t_278"
    /\ gil_mutex = NoThread
    /\ \E o \in LockOutcomes :
         IF o = "failed"
         THEN /\ fatal' = "pthread_mutex_lock(gil_mutex) failed"
              /\ UNCHANGED <<gil_mutex, pc>>
         ELSE /\ gil_mutex' = t
              /\ pc' = [pc EXCEPT ![t] = IF GilFree THEN "t_299" ELSE "t_288"]
              /\ UNCHANGED fatal
    /\ UNCHANGED <<shared, switch_mutex, gil_cond, switch_cond, created,
                   locals, alive, hist>>

\* Mutant: the interval handed to the timed wait without its floor.
INTERVAL_NoFloor == gil_interval

\* Line 14: #define INTERVAL (gil_interval >= 1 ? gil_interval : 1).
INTERVAL == IF gil_interval >= 1 THEN gil_interval ELSE 1

\* Lines 285-289: timed_out = 0; saved_switchnum = gil_switch_number;
\* COND_TIMED_WAIT evaluates INTERVAL for its deadline (line 119), releases
\* gil_mutex and blocks on gil_cond.
take_gil_288(t) ==
    /\ Running(t)
    /\ pc[t] = "t_288"
    /\ gil_mutex = t
    /\ saved_switchnum' = [saved_switchnum EXCEPT ![t] = gil_switch_number]
    /\ timed_out' = [timed_out EXCEPT ![t] = FALSE]
    /\ wait_interval' = [wait_interval EXCEPT ![t] = INTERVAL]
    /\ gil_mutex' = NoThread
    /\ gil_cond' = gil_cond \cup {t}
    /\ pc' = [pc EXCEPT ![t] = "t_289_wait"]
    /\ UNCHANGED <<shared, switch_mutex, switch_cond, created, tstate, fatal,
                   alive, hist>>

\* Lines 123-125: pthread_cond_timedwait returns ETIMEDOUT.
take_gil_289_timeout(t) ==
    /\ Running(t)
    /\ pc[t] = "t_289_wait"
    /\ gil_cond' = gil_cond \ {t}
    /\ timed_out' = [timed_out EXCEPT ![t] = TRUE]
    /\ pc' = [pc EXCEPT ![t] = "t_289_relock"]
    /\ UNCHANGED <<shared, gil_mutex, switch_mutex, switch_cond, created,
                   tstate, saved_switchnum, wait_interval, fatal, alive,
                   hist>>

\* Mutant: a waiter that never asks the holder to drop the GIL.
AsksDrop_Never(t) == FALSE

\* Mutant: the test of line 292 without the comparison of switch numbers.
AsksDrop_IgnoresSwitch(t) == timed_out[t] /\ gil_locked # 0

\* Line 292: the waiter asks the holder to drop the GIL.
AsksDrop(t) ==
    timed_out[t] /\ gil_locked # 0 /\ gil_switch_number = saved_switchnum[t]

\* Lines 289-295: the wait re-locks gil_mutex and returns; line 292-294;
\* then the loop test of line 284.  The locals die with the iteration.
take_gil_289_relock(t) ==
    /\ Running(t)
    /\ pc[t] = "t_289_relock"
    /\ gil_mutex = NoThread
    /\ gil_mutex' = t
    /\ gil_drop_request' = IF AsksDrop(t) THEN TRUE ELSE gil_drop_request
    /\ pc' = [pc EXCEPT ![t] = IF GilFree THEN "t_299" ELSE "t_288"]
    /\ saved_switchnum' = [saved_switchnum EXCEPT ![t] = 0]
    /\ timed_out' = [timed_out EXCEPT ![t] = FALSE]
    /\ wait_interval' = [wait_interval EXCEPT ![t] = 0]
    /\ UNCHANGED <<gil_locked, gil_switch_number, gil_last_holder,
                   switch_mutex, gil_cond, switch_cond, created, tstate,
                   fatal, alive, hist>>

\* Mutant: take_gil that publishes the new holder without switch_mutex.
take_gil_299_NoLock(t) ==
    /\ Running(t)
    /\ pc[t] = "t_299"
    /\ pc' = [pc EXCEPT ![t] = "t_302"]
    /\ UNCHANGED <<shared, prims, locals, fatal, alive, hist>>

\* Line 299: MUTEX_LOCK(switch_mutex).
take_gil_299(t) ==
    /\ Running(t)
    /\ pc[t] = "t_299"
    /\ switch_mutex = NoThread
    /\ switch_mutex' = t
    /\ pc' = [pc EXCEPT ![t] = "t_302"]
    /\ UNCHANGED <<shared, gil_mutex, gil_cond, switch_cond, created, locals,
                   fatal, alive, hist>>

\* Line 302: gil_locked = 1.
take_gil_302(t) ==
    /\ Running(t)
    /\ pc[t] = "t_302"
    /\ gil_locked' = 1
    /\ pc' = [pc EXCEPT ![t] = "t_304"]
    /\ UNCHANGED <<gil_switch_number, gil_last_holder, gil_drop_request,
                   prims, locals, fatal, alive, hist>>

\* Mutants: every acquisition counts as a switch; none does.
IsSwitch_Always(ts) == TRUE
IsSwitch_Never(ts) == FALSE

\* Line 304: does this acquisition count as a switch?
IsSwitch(ts) == ts # gil_last_holder

\* Lines 304-307: gil_last_holder = tstate; ++gil_switch_number.
take_gil_304(t) ==
    /\ Running(t)
    /\ pc[t] = "t_304"
    /\ IF IsSwitch(tstate[t])
       THEN /\ gil_last_holder' = tstate[t]
            /\ gil_switch_number' = gil_switch_number + 1
       ELSE UNCHANGED <<gil_last_holder, gil_switch_number>>
    /\ n_takes' = IF recording THEN n_takes + 1 ELSE n_takes
    /\ n_adjacent' = IF recording /\ tstate[t] = last_taker
                     THEN n_adjacent + 1 ELSE n_adjacent
    /\ last_taker' = IF recording THEN tstate[t] ELSE last_taker
    /\ mark_base' = IF recording /\ n_takes = 1
                    THEN gil_switch_number ELSE mark_base
    /\ mark_eq' = IF recording /\ n_takes = 1
                  THEN tstate[t] = last_taker ELSE mark_eq
    /\ owed' = [u \in Threads |-> IF u = t THEN owed[u] ELSE FALSE]
    /\ pc' = [pc EXCEPT ![t] = "t_309"]
    /\ UNCHANGED <<gil_locked, gil_drop_request, prims, locals, fatal, alive,
                   spurious, seq_base, unheld, wrong_calls, recording,
                   setting>>

\* Mutant: take_gil that unlocks switch_mutex without the signal.
take_gil_309_NoSignal(t) ==
    /\ Running(t)
    /\ pc[t] = "t_309"
    /\ pc' = [pc EXCEPT ![t] = "t_312"]
    /\ switch_mutex' = NoThread
    /\ UNCHANGED <<shared, gil_mutex, gil_cond, switch_cond, created, locals,
                   fatal, alive, hist>>

\* Lines 309-310: COND_SIGNAL(switch_cond); MUTEX_UNLOCK(switch_mutex).
take_gil_309(t) ==
    /\ Running(t)
    /\ pc[t] = "t_309"
    /\ \E w \in SignalChoices(switch_cond) :
         /\ switch_cond' = switch_cond \ {w}
         /\ pc' = IF w = NoThread THEN [pc EXCEPT ![t] = "t_312"]
                  ELSE [Woken(w) EXCEPT ![t] = "t_312"]
    /\ switch_mutex' = NoThread
    /\ UNCHANGED <<shared, gil_mutex, gil_cond, created, locals, fatal,
                   alive, hist>>

\* Mutant: take_gil that leaves the drop request as it finds it.
take_gil_312_NoReset(t) ==
    /\ Running(t)
    /\ pc[t] = "t_312"
    /\ pc' = [pc EXCEPT ![t] = "t_319"]
    /\ UNCHANGED <<shared, prims, locals, fatal, alive, hist>>

\* Lines 312-314: if (gil_drop_request) RESET_GIL_DROP_REQUEST().
take_gil_312(t) ==
    /\ Running(t)
    /\ pc[t] = "t_312"
    /\ gil_drop_request' = IF gil_drop_request THEN FALSE ELSE gil_drop_request
    /\ pc' = [pc EXCEPT ![t] = "t_319"]
    /\ UNCHANGED <<gil_locked, gil_switch_number, gil_last_holder, prims,
                   locals, fatal, alive, hist>>

\* Lines 319-321: MUTEX_UNLOCK(gil_mutex); return.
take_gil_319(t) ==
    /\ Running(t)
    /\ pc[t] = "t_319"
    /\ gil_mutex' = NoThread
    /\ pc' = [pc EXCEPT ![t] = "holding"]
    /\ tstate' = [tstate EXCEPT ![t] = NULL]
    /\ UNCHANGED <<shared, switch_mutex, gil_cond, switch_cond, created,
                   saved_switchnum, timed_out, wait_interval, fatal, alive,
                   hist>>

\* ------------------------------------------------------------- drop_gil
\* Lines 244-248: the call and the check of gil_locked.
drop_gil(t, ts) ==
    /\ Running(t)
    /\ pc[t] \in {"idle", "holding"}
    /\ IF gil_locked = 0
       THEN /\ fatal' = "drop_gil: GIL is not locked"
            /\ UNCHANGED <<shared, prims, pc, locals, alive, owed, unheld>>
       ELSE /\ pc' = [pc EXCEPT ![t] = "d_249"]
            /\ tstate' = [tstate EXCEPT ![t] = ts]
            /\ owed' = [owed EXCEPT ![t] =
                          /\ ts = t
                          /\ gil_drop_request
                          /\ \E u \in Threads \ {t} : WaitingInTake(u)]
            /\ unheld' = [unheld EXCEPT ![t] = gil_locked # 1]
            /\ UNCHANGED <<shared, prims, saved_switchnum, timed_out,
                           wait_interval, fatal, alive>>
    /\ UNCHANGED <<spurious, counts, recording, setting>>

\* Mutant: drop_gil without the check of the thread state.
WrongThreadState_Never(ts) == FALSE

\* Line 249: tstate != NULL && tstate != gil_last_holder.
WrongThreadState(ts) == ts # NULL /\ ts # gil_last_holder

\* Lines 249-250.
drop_gil_249(t) ==
    /\ Running(t)
    /\ pc[t] = "d_249"
    /\ IF WrongThreadState(tstate[t])
       THEN /\ fatal' = "drop_gil: wrong thread state"
            /\ UNCHANGED pc
       ELSE /\ pc' = [pc EXCEPT ![t] = "d_252"]
            /\ UNCHANGED fatal
    /\ UNCHANGED <<shared, prims, locals, alive, hist>>

\* Mutant: drop_gil that goes on without locking gil_mutex.
drop_gil_252_NoLock(t) ==
    /\ Running(t)
    /\ pc[t] = "d_252"
    /\ pc' = [pc EXCEPT ![t] = "d_253"]
    /\ UNCHANGED <<shared, prims, locals, fatal, alive, hist>>

\* Line 252: MUTEX_LOCK(gil_mutex).
drop_gil_252(t) ==
    /\ Running(t)
    /\ pc[t] = "d_252"
    /\ gil_mutex = NoThread
    /\ \E o \in LockOutcomes :
         IF o = "failed"
         THEN /\ fatal' = "pthread_mutex_lock(gil_mutex) failed"
              /\ UNCHANGED <<gil_mutex, pc>>
         ELSE /\ gil_mutex' = t
              /\ pc' = [pc EXCEPT ![t] = "d_253"]
              /\ UNCHANGED fatal
    /\ UNCHANGED <<shared, switch_mutex, gil_cond, switch_cond, created,
                   locals, alive, hist>>

\* Lines 253-258: gil_locked = 0; COND_SIGNAL(gil_cond);
\* MUTEX_UNLOCK(gil_mutex).  COND_PREPARE is empty on POSIX (line 105).
drop_gil_253(t) ==
    /\ Running(t)
    /\ pc[t] = "d_253"
    /\ gil_locked' = 0
    /\ \E w \in SignalChoices(gil_cond) :
         /\ gil_cond' = gil_cond \ {w}
         /\ pc' = IF w = NoThread THEN [pc EXCEPT ![t] = "d_261"]
                  ELSE [Woken(w) EXCEPT ![t] = "d_261"]
    /\ gil_mutex' = NoThread
    /\ UNCHANGED <<gil_switch_number, gil_last_holder, gil_drop_request,
                   switch_mutex, switch_cond, created, locals, fatal, alive,
                   hist>>

\* Line 261: if (gil_drop_request), read without a lock; else return.
drop_gil_261(t) ==
    /\ Running(t)
    /\ pc[t] = "d_261"
    /\ IF gil_drop_request
       THEN /\ pc' = [pc EXCEPT ![t] = "d_262"]
            /\ UNCHANGED tstate
       ELSE /\ pc' = [pc EXCEPT ![t] = "idle"]
            /\ tstate' = [tstate EXCEPT ![t] = NULL]
    /\ UNCHANGED <<shared, prims, saved_switchnum, timed_out, wait_interval,
                   fatal, alive, hist>>

\* Mutant: drop_gil without the forced switch (FORCE_SWITCHING undefined).
NotSwitchedYet_Never(ts) == FALSE

\* Line 264: not switched yet => wait.
NotSwitchedYet(ts) == gil_last_holder = ts

\* Line 262: MUTEX_LOCK(switch_mutex).
drop_gil_262(t) ==
    /\ Running(t)
    /\ pc[t] = "d_262"
    /\ switch_mutex = NoThread
    /\ switch_mutex' = t
    /\ pc' = [pc EXCEPT ![t] = "d_264"]
    /\ UNCHANGED <<shared, gil_mutex, gil_cond, switch_cond, created, locals,
                   fatal, alive, hist>>

\* Line 264: if (gil_last_holder == tstate).
drop_gil_264(t) ==
    /\ Running(t)
    /\ pc[t] = "d_264"
    /\ pc' = [pc EXCEPT ![t] = IF NotSwitchedYet(tstate[t])
                               THEN "d_265" ELSE "d_266"]
    /\ UNCHANGED <<shared, prims, locals, fatal, alive, hist>>

\* Line 265: COND_WAIT; pthread_cond_wait releases switch_mutex and blocks
\* on switch_cond in one step.
drop_gil_265(t) ==
    /\ Running(t)
    /\ pc[t] = "d_265"
    /\ switch_cond' = switch_cond \cup {t}
    /\ switch_mutex' = NoThread
    /\ pc' = [pc EXCEPT ![t] = "d_265_wait"]
    /\ UNCHANGED <<shared, gil_mutex, gil_cond, created, locals, fatal,
                   alive, hist>>

\* Line 265: pthread_cond_wait re-locks switch_mutex before it returns.
drop_gil_265_relock(t) ==
    /\ Running(t)
    /\ pc[t] = "d_265_relock"
    /\ switch_mutex = NoThread
    /\ switch_mutex' = t
    /\ pc' = [pc EXCEPT ![t] = "d_266"]
    /\ UNCHANGED <<shared, gil_mutex, gil_cond, switch_cond, created, locals,
                   fatal, alive, hist>>

\* Lines 266-269: MUTEX_UNLOCK(switch_mutex); return.
drop_gil_266(t) ==
    /\ Running(t)
    /\ pc[t] = "d_266"
    /\ switch_mutex' = NoThread
    /\ pc' = [pc EXCEPT ![t] = "idle"]
    /\ tstate' = [tstate EXCEPT ![t] = NULL]
    /\ UNCHANGED <<shared, gil_mutex, gil_cond, switch_cond, created,
                   saved_switchnum, timed_out, wait_interval, fatal, alive,
                   hist>>

\* pthread_cond_wait (line 110) and pthread_cond_timedwait (line 123) may
\* return 0 although no thread signalled the condition variable.
spurious_wakeup(t) ==
    /\ Running(t)
    /\ spurious < MaxSpurious
    /\ pc[t] \in {"t_289_wait", "d_265_wait"}
    /\ gil_cond' = gil_cond \ {t}
    /\ switch_cond' = switch_cond \ {t}
    /\ pc' = Woken(t)
    /\ spurious' = spurious + 1
    /\ UNCHANGED <<shared, gil_mutex, switch_mutex, created, locals, fatal,
                   alive, counts, owed, unheld, wrong_calls, recording,
                   setting>>

\* ------------------------------------------------------ switch interval
\* Arguments of _PyEval_SetSwitchInterval tried by the runs.
Intervals == 0 .. MaxInterval

\* _PyEval_SetSwitchInterval(microseconds), lines 323-326; no lock is taken.
PyEval_SetSwitchInterval(microseconds) ==
    /\ fatal = NoError
    /\ gil_interval' = microseconds
    /\ set_arg' = microseconds
    /\ UNCHANGED <<shared, prims, pc, locals, fatal, alive, spurious, counts,
                   owed, unheld, wrong_calls, recording>>

\* _PyEval_GetSwitchInterval(), lines 328-331: the value it returns.
PyEval_GetSwitchInterval == gil_interval

\* ----------------------------------------------------------------- runs
\* One statement of the call thread t is inside.
Step(t) ==
    \/ take_gil_278(t)
    \/ take_gil_288(t)
    \/ take_gil_289_timeout(t)
    \/ take_gil_289_relock(t)
    \/ take_gil_299(t)
    \/ take_gil_302(t)
    \/ take_gil_304(t)
    \/ take_gil_309(t)
    \/ take_gil_312(t)
    \/ take_gil_319(t)
    \/ drop_gil_249(t)
    \/ drop_gil_252(t)
    \/ drop_gil_253(t)
    \/ drop_gil_261(t)
    \/ drop_gil_262(t)
    \/ drop_gil_264(t)
    \/ drop_gil_265(t)
    \/ drop_gil_265_relock(t)
    \/ drop_gil_266(t)

\* Correct use: create_gil first, take_gil with the thread's own state,
\* drop_gil by the holder with its own state or NULL (line 246).
AcquireCall(t) ==
    /\ created
    /\ take_gil(t, t)
    /\ UNCHANGED wrong_calls
ReleaseCall(t) ==
    /\ pc[t] = "holding"
    /\ \E ts \in {t, NULL} : drop_gil(t, ts)
    /\ UNCHANGED wrong_calls

Next ==
    \/ Initialize
    \/ \E t \in Threads :
         \/ recreate_gil(t)
         \/ AcquireCall(t)
         \/ ReleaseCall(t)
         \/ Step(t)
         \/ spurious_wakeup(t)

Spec == Init /\ [][Next]_vars

\* Any use: calls before create_gil, take_gil(NULL), drop_gil by a thread
\* that does not hold the GIL or with the state of another thread.
WrongAcquireCall(t) ==
    /\ \E ts \in {t, NULL} : (ts = NULL \/ ~created) /\ take_gil(t, ts)
    /\ wrong_calls' = wrong_calls + 1
WrongReleaseCall(t) ==
    /\ TakeBudget
    /\ \E ts \in Threads \cup {NULL} :
         (pc[t] = "idle" \/ ts \notin {t, NULL}) /\ drop_gil(t, ts)
    /\ wrong_calls' = wrong_calls + 1

NextAnyUse ==
    \/ Initialize
    \/ \E t \in Threads :
         \/ AcquireCall(t)
         \/ ReleaseCall(t)
         \/ WrongAcquireCall(t)
         \/ WrongReleaseCall(t)
         \/ Step(t)

SpecAnyUse == Init /\ [][NextAnyUse]_vars

\* Correct use by two threads, with the switch interval set at any moment.
IntervalThreads == {"A", "B"}
NextInterval ==
    \/ Initialize
    \/ \E v \in Intervals : PyEval_SetSwitchInterval(v)
    \/ \E t \in IntervalThreads :
         \/ AcquireCall(t)
         \/ ReleaseCall(t)
         \/ Step(t)

SpecInterval == Init /\ [][NextInterval]_vars

\* The holder as the evaluation loop runs it: it polls gil_drop_request and,
\* when it reads it set, calls drop_gil with its own thread state.
PollAndDrop(t) ==
    /\ pc[t] = "holding"
    /\ gil_drop_request
    /\ drop_gil(t, t)
    /\ UNCHANGED wrong_calls

NextFair ==
    \/ Initialize
    \/ \E t \in Threads :
         \/ AcquireCall(t)
         \/ PollAndDrop(t)
         \/ Step(t)
         \/ spurious_wakeup(t)

\* Fair scheduling: a thread inside a call keeps running (a timed wait
\* ends, and a thread that finds the mutex it needs free again and again
\* eventually locks it), and the holder keeps polling.  Nothing obliges a
\* thread to call take_gil, or a wait to end without a signal.
Fairness ==
    \A t \in Threads : SF_vars(Step(t)) /\ WF_vars(PollAndDrop(t))

InitFair == Statics /\ recording = FALSE

FairSpec == InitFair /\ [][NextFair]_vars /\ Fairness

\* Fair scheduling of holders that drop the GIL whenever they like, asked to
\* or not, with their own thread state or NULL; no wait ends without a
\* signal or a timeout, so that a releaser is woken by a successor only.
NextFairRelease ==
    \/ Initialize
    \/ \E t \in Threads :
         \/ AcquireCall(t)
         \/ ReleaseCall(t)
         \/ Step(t)

FairReleaseSpec ==
    InitFair /\ [][NextFairRelease]_vars /\ \A t \in Threads : SF_vars(Step(t))

\* ======================================================== properties
\* A thread between its completed take_gil and the release of its drop_gil
\* (line 253).
InCritical(t) == pc[t] \in {"holding", "d_249", "d_252", "d_253"}
Owners == {t \in Threads : InCritical(t)}

\* C1 -- Mutual exclusion: under correct use (create_gil first, drop_gil only
\* by a thread after its own completed take_gil), at most one thread is
\* between a completed take_gil and its matching drop_gil.
C1_MutualExclusion == Cardinality(Owners) <= 1

\* One thread owns the GIL while the two others wait for it in take_gil.
C1_Witness ==
    \E t \in Threads :
        /\ pc[t] = "holding"
        /\ \A u \in Threads \ {t} : pc[u] = "t_289_wait"

\* C2 -- No self-reacquire under contention: a thread that called
\* drop_gil(own state) while gil_drop_request was set and another thread was
\* waiting in take_gil does not acquire the GIL again before some other
\* thread has acquired it (owed[t] is raised by that call and lowered by the
\* acquisition of any other thread).
C2_NoSelfReacquire ==
    \A t \in Threads : pc[t] \in {"t_309", "t_312", "t_319"} => ~owed[t]

\* C3 -- Forced handoff: a drop_gil that found gil_drop_request set at
\* line 261 (it is then at lines 262-266) returns, at line 266, only when
\* gil_last_holder is no longer the releasing thread, whether it was called
\* with the thread's own state or with NULL and however its wait ended.
C3_ForcedHandoff ==
    \A t \in Threads : pc[t] = "d_266" => gil_last_holder # t

\* C4 -- Progress: under fair scheduling, whenever a thread holds the GIL
\* while another one waits in the loop of take_gil, and holders poll the
\* drop request and drop the GIL when they read it set, some other thread
\* eventually holds the GIL.
C4_Progress ==
    \A h \in Threads :
        (pc[h] = "holding" /\ \E w \in Threads \ {h} : WaitingInTake(w))
            ~> (\E u \in Threads \ {h} : pc[u] = "holding")

\* A holder that has been asked to drop, with both other threads waiting.
C4_Witness ==
    \E h \in Threads :
        /\ pc[h] = "holding"
        /\ gil_drop_request
        /\ \A w \in Threads \ {h} : pc[w] = "t_289_wait"

\* C5 -- Per-take switch counting: the acquisition by t (lines 304-307)
\* adds one to gil_switch_number and makes t the last holder when t differs
\* from gil_last_holder just before it, and changes neither when t is
\* gil_last_holder; no other step of take_gil or drop_gil changes either.
C5_Acquires(t) == pc[t] = "t_304" /\ pc'[t] = "t_309"
C5_PerTakeSwitchCount ==
    [][ /\ \A t \in Threads :
             C5_Acquires(t) =>
               /\ gil_last_holder' = tstate[t]
               /\ gil_switch_number' =
                    IF tstate[t] # gil_last_holder
                    THEN gil_switch_number + 1 ELSE gil_switch_number
        /\ (/\ \A t \in Threads : ~C5_Acquires(t)
            /\ created' = created
            /\ alive' = alive)
           => UNCHANGED <<gil_switch_number, gil_last_holder>>
      ]_vars

\* A thread has just reacquired the GIL after its own release (no increment)
\* in a run in which the GIL also switched between threads.
C5_Witness ==
    \E t \in Threads :
        /\ pc[t] = "t_309"
        /\ n_adjacent >= 1
        /\ gil_switch_number >= 2
        /\ gil_switch_number < n_takes

\* C6 (as stated) -- after N acquisitions with K adjacent equal identities,
\* gil_switch_number has grown by N - K - 1 when the sequence starts with
\* the first acquisition ever, and by N - K otherwise (here: the sequences
\* that start after recreate_gil, and those that start with acquisition 2).
C6_AsStated ==
    /\ (n_takes >= 1 /\ ~Forked) =>
          gil_switch_number - seq_base = n_takes - n_adjacent - 1
    /\ (n_takes >= 1 /\ Forked) =>
          gil_switch_number - seq_base = n_takes - n_adjacent
    /\ n_takes >= 2 =>
          gil_switch_number - mark_base =
             (n_takes - 1) - (n_adjacent - (IF mark_eq THEN 1 ELSE 0))

\* C6 (amended) -- the growth is N - K whenever gil_last_holder is NULL
\* before the sequence (the first acquisition ever, or the first after
\* recreate_gil), and otherwise N - K less one if the first identity of the
\* sequence is gil_last_holder just before it.
C6_SwitchCountFormula ==
    /\ n_takes >= 1 =>
          gil_switch_number - seq_base = n_takes - n_adjacent
    /\ n_takes >= 2 =>
          gil_switch_number - mark_base =
             (n_takes - 1) - (n_adjacent - (IF mark_eq THEN 1 ELSE 0))
             - (IF mark_eq THEN 1 ELSE 0)

\* Three acquisitions, the second by the thread of the first: the sequence
\* from acquisition 2 starts with the previous holder.
C6_Witness ==
    /\ n_takes = 3
    /\ n_adjacent = 1
    /\ mark_eq
    /\ gil_switch_number = 2

\* The only thread of a forked process, back from its first drop_gil.
C7_AfterFirstCycle(a) ==
    /\ alive = {a}
    /\ n_takes = 1
    /\ pc[a] = "idle"

\* C7 (as stated) -- after recreate_gil, take_gil(A); drop_gil(A) ends with
\* gil_last_holder = A and gil_switch_number = 1, whatever the state before.
C7_AsStated ==
    \A a \in Threads :
        C7_AfterFirstCycle(a) =>
            /\ fatal = NoError
            /\ gil_last_holder = a
            /\ gil_switch_number = 1

\* C7 (amended) -- after recreate_gil, take_gil(A); drop_gil(A) succeeds and
\* ends with gil_last_holder = A, the GIL free, the drop request clear and
\* gil_switch_number one more than before recreate_gil, which resets
\* gil_locked and gil_last_holder only.
C7_ReinitCycle ==
    \A a \in Threads :
        C7_AfterFirstCycle(a) =>
            /\ fatal = NoError
            /\ gil_last_holder = a
            /\ gil_switch_number = seq_base + 1
            /\ gil_locked = 0
            /\ ~gil_drop_request

\* The cycle has ended in a process forked after three switches.
C7_Witness ==
    \E a \in Threads : C7_AfterFirstCycle(a) /\ seq_base = 3

\* Thread a is alone: no fork, no other thread has made a call.
C8_Alone(a) ==
    /\ created
    /\ ~Forked
    /\ \A u \in Threads \ {a} : pc[u] = "idle"
    /\ n_takes <= 1
    /\ n_takes = 1 => last_taker = a

\* C8 -- Uncontended cycle: when create_gil; take_gil(A); drop_gil(A) run
\* with no other thread, take_gil never waits and never sets the drop
\* request, and the cycle ends with gil_last_holder = A,
\* gil_switch_number = 1, the GIL free and the drop request clear.
C8_UncontendedCycle ==
    \A a \in Threads :
        C8_Alone(a) =>
            /\ fatal = NoError
            /\ ~WaitingInTake(a)
            /\ ~gil_drop_request
            /\ (n_takes = 1 /\ pc[a] = "idle") =>
                  /\ gil_last_holder = a
                  /\ gil_switch_number = 1
                  /\ gil_locked = 0

\* The lone thread is back from drop_gil.
C8_Witness ==
    \E a \in Threads : C8_Alone(a) /\ n_takes = 1 /\ pc[a] = "idle"

\* C9 -- Release when not held is fatal: a drop_gil called while gil_locked
\* is not 1 (0 or -1) never gets past the checks of lines 247-250, so that
\* it touches no primitive and no shared variable.
C9_UnheldDropIsFatal ==
    \A t \in Threads :
        (unheld[t] /\ pc[t] \in DropLabels) => pc[t] = "d_249"

\* C10 -- Identity preconditions are fatal and free of side effects:
\* drop_gil(t) that finds t # gil_last_holder at line 249 and
\* take_gil(NULL) go no further, and the step that raises either fatal
\* error changes no shared variable and no primitive, the failing thread
\* holding no mutex.
C10_IdentityErrors == {"drop_gil: wrong thread state", "take_gil: NULL tstate"}
C10_IdentityFatal ==
    [][ /\ \A t \in Threads :
             /\ (/\ pc[t] = "d_249"
                 /\ tstate[t] # NULL
                 /\ tstate[t] # gil_last_holder) => pc'[t] = "d_249"
             /\ pc'[t] \in TakeLabels => tstate'[t] # NULL
        /\ (fatal = NoError /\ fatal' \in C10_IdentityErrors) =>
             /\ UNCHANGED <<shared, prims, pc>>
             /\ \E t \in Threads :
                  /\ pc[t] \in {"idle", "d_249"}
                  /\ gil_mutex # t
                  /\ switch_mutex # t
                  /\ fatal' = IF pc[t] = "idle" THEN "take_gil: NULL tstate"
                              ELSE "drop_gil: wrong thread state"
      ]_vars

\* drop_gil has failed on a thread state that is not the last holder, while
\* some thread holds the GIL.
C10_Witness ==
    /\ fatal = "drop_gil: wrong thread state"
    /\ gil_locked = 1
    /\ gil_last_holder # NULL

\* A thread in the part of take_gil that makes it the owner: from the
\* write gil_locked = 1 (line 302) to the return (line 321).
Publishing(t) == pc[t] \in {"t_304", "t_309", "t_312", "t_319"}

\* C11 -- Invariant I1: while a thread is between its completed take_gil and
\* the release of its drop_gil, gil_locked = 1 and gil_last_holder is that
\* thread; and whenever gil_locked = 1 and no thread is in the part of
\* take_gil that makes it the owner, exactly one thread is the owner.
C11_OwnerInvariant ==
    /\ \A t \in Owners : gil_locked = 1 /\ gil_last_holder = t
    /\ (gil_locked = 1 /\ \A t \in Threads : ~Publishing(t)) =>
          Cardinality(Owners) = 1

\* The owner is inside drop_gil, about to release, after the GIL has
\* switched between threads, while another thread waits.
C11_Witness ==
    \E t \in Threads :
        /\ pc[t] = "d_253"
        /\ gil_switch_number >= 2
        /\ \E u \in Threads \ {t} : pc[u] = "t_289_wait"

\* The scenario of C12: only a has acquired the GIL since create_gil, a
\* holds it and b is blocked in the loop of take_gil.
C12_Scenario(a, b) ==
    /\ gil_switch_number = 1
    /\ gil_last_holder = a
    /\ pc[a] = "holding"
    /\ WaitingInTake(b)

\* b is back from take_gil after the handoff.
C12_Handed(b) ==
    /\ pc[b] = "holding"
    /\ gil_switch_number = 2
    /\ gil_last_holder = b
    /\ ~gil_drop_request

\* C12 -- Simple handoff: with a holding the GIL and b blocked in take_gil,
\* a timed wait of b that expires with no switch since it began sets
\* gil_drop_request; and, the holder dropping the GIL when it reads the
\* request, as long as the third thread stays out, b's take_gil returns
\* with gil_switch_number = 2, gil_last_holder = b and the request clear.
C12_SimpleHandoff ==
    /\ [][ \A a \in Threads : \A b \in Threads \ {a} :
             (/\ pc[a] = "holding"
              /\ pc[b] = "t_289_relock"
              /\ pc'[b] \in {"t_288", "t_299"}
              /\ timed_out[b]
              /\ gil_switch_number = saved_switchnum[b])
             => gil_drop_request' ]_vars
    /\ \A a \in Threads : \A b \in Threads \ {a} :
         C12_Scenario(a, b)
           ~> (\/ C12_Handed(b)
               \/ \E c \in Threads \ {a, b} : pc[c] # "idle")

\* b has just acquired the GIL as the second holder, the request it set is
\* still up, the releaser a has been woken from its wait on switch_cond and
\* the third thread has stayed out.
C12_Witness ==
    \E a \in Threads : \E b \in Threads \ {a} :
        /\ pc[b] = "t_312"
        /\ gil_drop_request
        /\ gil_switch_number = 2
        /\ gil_last_holder = b
        /\ pc[a] = "d_265_relock"
        /\ \A c \in Threads \ {a, b} : pc[c] = "idle"

\* C13 -- Switch interval round trip: after _PyEval_SetSwitchInterval(v)
\* with v >= 1, _PyEval_GetSwitchInterval() returns v; and every timed wait
\* of take_gil, when it starts, waits for the interval as set at that
\* moment, or for 1 when that is 0.
C13_IntervalRoundTrip ==
    /\ [](set_arg >= 1 => PyEval_GetSwitchInterval = set_arg)
    /\ [][ \A t \in Threads :
             (pc[t] = "t_288" /\ pc'[t] = "t_289_wait") =>
                wait_interval'[t] =
                   IF gil_interval = 0 THEN 1 ELSE gil_interval ]_vars

\* A thread is in a timed wait of 1 microsecond started after the interval
\* was set to 0.
C13_Witness ==
    \E t \in Threads :
        /\ pc[t] = "t_289_wait"
        /\ set_arg = 0
        /\ wait_interval[t] = 1

\* C14 (as stated) -- Invariant I4: whenever gil_drop_request is set, some
\* thread is blocked in the wait loop of take_gil.
C14_AsStated ==
    gil_drop_request => \E w \in Threads : WaitingInTake(w)

\* C14 (amended) -- whenever gil_drop_request is set while a thread is
\* between its completed take_gil and the release of its drop_gil, some
\* other thread is blocked in the wait loop of take_gil.  (With no such
\* thread the request may stay set until the next acquisition clears it.)
C14_FlagImpliesWaiter ==
    \A h \in Owners :
        gil_drop_request => \E w \in Threads \ {h} : WaitingInTake(w)

\* The holder has been asked to drop the GIL by the only waiter, and is
\* about to release it.
C14_Witness ==
    \E h \in Threads : \E w \in Threads \ {h} :
        /\ pc[h] = "d_252"
        /\ gil_drop_request
        /\ pc[w] = "t_289_wait"
        /\ \A c \in Threads \ {h, w} : pc[c] = "idle"

\* Thread t comes back from its timed wait and runs lines 292-294.
C15_AfterWait(t) == pc[t] = "t_289_relock" /\ pc'[t] \in {"t_288", "t_299"}

\* The three conditions of the timeout rule, as t finds them after its wait.
C15_Rule(t) ==
    /\ timed_out[t]
    /\ gil_locked = 1
    /\ gil_switch_number = saved_switchnum[t]

\* C15 -- Timeout rule: a thread back from a timed wait in take_gil leaves
\* gil_drop_request set if and only if it was set already or the wait timed
\* out, the GIL is still taken and gil_switch_number is what the thread
\* saved before the wait; and the request is never raised in any other way.
C15_TimeoutRule ==
    [][ /\ \A t \in Threads :
             C15_AfterWait(t) =>
                (gil_drop_request' <=> (gil_drop_request \/ C15_Rule(t)))
        /\ (~gil_drop_request /\ gil_drop_request') =>
              \E t \in Threads : C15_AfterWait(t) /\ C15_Rule(t)
      ]_vars

\* A wait has timed out with the GIL taken, but by another thread than
\* when the wait began: the request, not yet set, stays down.
C15_Witness ==
    \E t \in Threads :
        /\ pc[t] = "t_289_relock"
        /\ timed_out[t]
        /\ gil_locked = 1
        /\ gil_switch_number # saved_switchnum[t]
        /\ gil_mutex = NoThread
        /\ ~gil_drop_request

\* C16 -- A new holder starts with a clear flag: when a take_gil is about
\* to unlock gil_mutex and return (line 319), gil_drop_request is clear,
\* and it is still clear once the thread is back from that step.
C16_NewHolderClearFlag ==
    [][ \A t \in Threads :
          (pc[t] = "t_319" /\ pc'[t] = "holding") =>
             ~gil_drop_request /\ ~gil_drop_request' ]_vars

\* take_gil is about to return with the request clear, while the thread that
\* released the GIL is in the forced switch it entered because it read the
\* request set, and the third thread waits for the GIL.
C16_Witness ==
    \E t \in Threads : \E r \in Threads \ {t} :
        /\ pc[t] = "t_319"
        /\ pc[r] = "d_265_relock"
        /\ ~gil_drop_request
        /\ \A w \in Threads \ {t, r} : pc[w] = "t_289_wait"

\* C17 -- Lock discipline: a step of take_gil or drop_gil that changes
\* gil_locked, gil_last_holder, gil_switch_number or gil_drop_request is made
\* by a thread that holds gil_mutex (from before the step, or from the
\* re-lock that ends its wait), and also switch_mutex when it changes
\* gil_last_holder; and drop_gil compares gil_last_holder with its argument
\* (line 264) while it holds switch_mutex.
C17_LockDiscipline ==
    [][ /\ (shared' # shared /\ created /\ created' /\ alive' = alive) =>
              \E t \in Threads :
                  /\ pc'[t] # pc[t]
                  /\ \/ gil_mutex = t
                     \/ gil_mutex = NoThread /\ gil_mutex' = t
                  /\ gil_last_holder' # gil_last_holder => switch_mutex = t
        /\ \A t \in Threads :
              (pc[t] = "d_264" /\ pc'[t] \in {"d_265", "d_266"}) =>
                  switch_mutex = t /\ switch_mutex' = t
      ]_vars

\* A thread holding both mutexes is about to write gil_last_holder while a
\* releaser that read the drop request set is kept out of switch_mutex.
C17_Witness ==
    \E t \in Threads : \E r \in Threads \ {t} :
        /\ pc[t] = "t_304"
        /\ gil_mutex = t
        /\ switch_mutex = t
        /\ pc[r] = "d_262"

\* C18 -- Drop always returns: under fair scheduling every drop_gil called
\* by the holder, asked to drop or not, returns; a releaser that waits on
\* switch_cond is woken by the take_gil of a successor.
C18_DropReturns ==
    \A t \in Threads : (pc[t] \in DropLabels) ~> (pc[t] = "idle")

\* A releaser blocked on switch_cond while its successor, kept out of
\* switch_mutex until the wait began, is about to publish itself and signal.
C18_Witness ==
    \E r \in Threads : \E t \in Threads \ {r} :
        /\ pc[r] = "d_265_wait"
        /\ r \in switch_cond
        /\ gil_last_holder = r
        /\ pc[t] = "t_304"
        /\ switch_mutex = t

\* C19 -- At most one releaser waits at the handoff barrier: at most one
\* thread is blocked on switch_cond, and the threads blocked there are those
\* inside the wait of line 265.
C19_OneReleaserWaits ==
    /\ Cardinality(switch_cond) <= 1
    /\ switch_cond = {t \in Threads : pc[t] = "d_265_wait"}

\* A releaser blocked on switch_cond while the thread that took the GIL
\* after it is about to signal, and the third thread waits for the GIL.
C19_Witness ==
    \E r \in Threads : \E t \in Threads \ {r} :
        /\ switch_cond = {r}
        /\ pc[t] = "t_309"
        /\ \A w \in Threads \ {r, t} : pc[w] = "t_289_wait"

\* C20 -- Correct use never aborts: with create_gil run first, every thread
\* calling take_gil with its own thread state and drop_gil only after its
\* own completed take_gil, no Py_FatalError is ever raised; a thread at the
\* checks of drop_gil (lines 247-250) finds the GIL taken and itself the
\* last holder whatever the other threads are doing in take_gil.
C20_NeverAborts ==
    /\ fatal = NoError
    /\ \A t \in Threads :
          pc[t] = "d_249" => (gil_locked = 1 /\ gil_last_holder = t)

\* The holder is at the checks of drop_gil, made without a lock, while one
\* thread is inside take_gil with gil_mutex locked and another waits.
C20_Witness ==
    \E h \in Threads : \E u \in Threads \ {h} :
        /\ pc[h] = "d_249"
        /\ tstate[h] = h
        /\ pc[u] = "t_288"
        /\ gil_mutex = u
        /\ \A w \in Threads \ {h, u} : pc[w] = "t_289_wait"

====
